---- MODULE Spec2Model ----
(***************************************************************************)
(* Completion resolver of scanner/src/completion.rs.                       *)
(*                                                                         *)
(* A Rust String is a tuple of one-character strings, so that trimming,    *)
(* searching, slicing and the regular expressions of the source are        *)
(* computed on the characters.  An Option<String> is a record              *)
(* [some, val].  The symbol database is a record of four tables, each a    *)
(* tuple of rows in rowid order.  The syntax tree is represented by what   *)
(* the resolver reads from it: the kind and text of the node before the    *)
(* operator, the chain of member accesses around it, the enclosing class,  *)
(* and the matches of the two tree-sitter queries.                         *)
(***************************************************************************)
EXTENDS Integers, Sequences, FiniteSets, TLC

VARIABLES
    inheritance, \* the inheritance table of the symbol database (conn)
    req,        \* the request: cursor context extracted from the tree
    pc,         \* position of the request in the resolver code
    cur,        \* Option<String>: type of the expression resolved so far
    chain,      \* member accesses still to apply to cur
    fmMember,   \* find_member_return_type: member_name
    fmRet,      \* find_member_return_type: where its result goes
    tdCur,      \* resolve_typedef: current
    tdIter,     \* resolve_typedef: typedef lookups issued by this call
    tdRet,      \* resolve_typedef: where its result goes
    queue,      \* worklist of the running walk (a Vec used with push/pop)
    visited,    \* visited map of the running walk (its key set)
    walked,     \* what the running walk expanded, in order: the name, the class
                \* row used (fetch), whether the member was found there (find)
    result,     \* fetch_members_recursive: result
    response,   \* what the request returned to the host
    raw,        \* TypeCleaner check: the input string
    cleaned     \* TypeCleaner check: extract_clean_type(raw)

vars == <<inheritance, req, pc, cur, chain, fmMember, fmRet, tdCur, tdIter, tdRet,
          queue, visited, walked, result, response, raw, cleaned>>

-----------------------------------------------------------------------------
(* Option *)

None == [some |-> FALSE, val |-> <<>>]
Some(s) == [some |-> TRUE, val |-> s]

-----------------------------------------------------------------------------
(* Characters and strings *)

UpperChars == <<"A","B","C","D","E","F","G","H","I","J","K","L","M",
                "N","O","P","Q","R","S","T","U","V","W","X","Y","Z">>
LowerChars == <<"a","b","c","d","e","f","g","h","i","j","k","l","m",
                "n","o","p","q","r","s","t","u","v","w","x","y","z">>
Upper == {UpperChars[i] : i \in DOMAIN UpperChars}
Lower == {LowerChars[i] : i \in DOMAIN LowerChars}
Digit == {"0","1","2","3","4","5","6","7","8","9"}

\* \w of the regex crate, on ASCII
WordChar == Upper \cup Lower \cup Digit \cup {"_"}
\* [A-Z0-9_]
ApiChar == Upper \cup Digit \cup {"_"}
\* [a-zA-Z0-9_:]
PathChar == WordChar \cup {":"}

IsSpace(c) == c \in {" ", "\t", "\n", "\r"}

Min(S) == CHOOSE x \in S : \A y \in S : x <= y
Max(S) == CHOOSE x \in S : \A y \in S : x >= y

\* str::find(char) and str::rfind(char): 1-based index, 0 for None
Find(s, c) ==
    LET I == {i \in 1..Len(s) : s[i] = c} IN IF I = {} THEN 0 ELSE Min(I)
RFind(s, c) ==
    LET I == {i \in 1..Len(s) : s[i] = c} IN IF I = {} THEN 0 ELSE Max(I)

\* str::trim
Trim(s) ==
    LET I == {i \in 1..Len(s) : ~IsSpace(s[i])}
    IN IF I = {} THEN <<>> ELSE SubSeq(s, Min(I), Max(I))

\* SQL LOWER(): ASCII letters only
LowerOf(c) ==
    IF c \in Upper THEN LowerChars[CHOOSE i \in DOMAIN UpperChars : UpperChars[i] = c]
    ELSE c
ToLower(s) == [i \in 1..Len(s) |-> LowerOf(s[i])]

\* \b between s[i-1] and s[i], for i in 1..Len(s)+1
WordBoundary(s, i) ==
    ((i > 1) /\ s[i-1] \in WordChar) # ((i <= Len(s)) /\ s[i] \in WordChar)

\* the end of the run of characters of class C that starts at i (i-1 if empty)
RECURSIVE RunEnd(_, _, _)
RunEnd(s, i, C) ==
    IF i <= Len(s) /\ s[i] \in C THEN RunEnd(s, i + 1, C) ELSE i - 1

\* the first index >= i that is not whitespace (Len(s)+1 if none): \s*
RECURSIVE SkipSpace(_, _)
SkipSpace(s, i) ==
    IF i <= Len(s) /\ IsSpace(s[i]) THEN SkipSpace(s, i + 1) ELSE i

\* Regex::new(r"\b{kw}\b").replace_all(s, ""): leftmost matches, left to right
KeywordAt(s, i, kw) ==
    /\ s[i] = kw[1]
    /\ i + Len(kw) - 1 <= Len(s)
    /\ SubSeq(s, i, i + Len(kw) - 1) = kw
    /\ WordBoundary(s, i)
    /\ WordBoundary(s, i + Len(kw))
RECURSIVE RemoveKeywordFrom(_, _, _)
RemoveKeywordFrom(s, kw, i) ==
    IF i > Len(s) THEN <<>>
    ELSE IF KeywordAt(s, i, kw) THEN RemoveKeywordFrom(s, kw, i + Len(kw))
    ELSE <<s[i]>> \o RemoveKeywordFrom(s, kw, i + 1)
RemoveKeyword(s, kw) ==
    IF \E i \in 1..Len(s) : KeywordAt(s, i, kw) THEN RemoveKeywordFrom(s, kw, 1) ELSE s

\* Regex::new(r"\b[A-Z0-9_]+_API\b").replace_all(s, ""): the length of the match
\* at i, 0 when there is none.  Both \b and the class force the match to be a
\* whole word: [A-Z0-9_]+ backtracks to leave _API as the word's last four.
ApiMatchLen(s, i) ==
    LET e == RunEnd(s, i, ApiChar)
    IN IF /\ WordBoundary(s, i)
          /\ e - i + 1 >= 5
          /\ WordBoundary(s, e + 1)
          /\ SubSeq(s, e - 3, e) = <<"_","A","P","I">>
       THEN e - i + 1 ELSE 0
RECURSIVE RemoveApiFrom(_, _)
RemoveApiFrom(s, i) ==
    IF i > Len(s) THEN <<>>
    ELSE IF ApiMatchLen(s, i) > 0 THEN RemoveApiFrom(s, i + ApiMatchLen(s, i))
    ELSE <<s[i]>> \o RemoveApiFrom(s, i + 1)
RemoveApi(s) ==
    IF \E i \in 1..Len(s) : s[i] = "_" THEN RemoveApiFrom(s, 1) ELSE s

\* .replace('*', " ").replace('&', " ")
ReplacePtrRef(s) == [i \in 1..Len(s) |-> IF s[i] \in {"*", "&"} THEN " " ELSE s[i]]

\* .split_whitespace().last().unwrap_or("")
LastToken(s) ==
    LET I == {i \in 1..Len(s) : ~IsSpace(s[i])}
    IN IF I = {} THEN <<>>
       ELSE LET e == Max(I)
                B == {i \in 1..e : IsSpace(s[i])}
            IN SubSeq(s, IF B = {} THEN 1 ELSE Max(B) + 1, e)

\* .split("::").last().unwrap_or(""): "::" is matched left to right, without
\* overlap; st is where the current piece starts
RECURSIVE LastSegmentFrom(_, _, _)
LastSegmentFrom(s, i, st) ==
    IF i >= Len(s) THEN SubSeq(s, st, Len(s))
    ELSE IF s[i] = ":" /\ s[i+1] = ":" THEN LastSegmentFrom(s, i + 2, i + 2)
    ELSE LastSegmentFrom(s, i + 1, st)
LastSegment(s) == LastSegmentFrom(s, 1, 1)

-----------------------------------------------------------------------------
(* TypeCleaner: extract_clean_type *)

\* the wrapper list without its last entry
WrappersShort == { <<"T","O","b","j","e","c","t","P","t","r">>, <<"T","S","h","a","r","e","d","P","t","r">>, <<"T","U","n","i","q","u","e","P","t","r">>, <<"T","W","e","a","k","O","b","j","e","c","t","P","t","r">>,
                   <<"T","S","u","b","c","l","a","s","s","O","f">>, <<"T","S","o","f","t","O","b","j","e","c","t","P","t","r">>, <<"T","S","o","f","t","C","l","a","s","s","P","t","r">> }

Wrappers == { <<"T","O","b","j","e","c","t","P","t","r">>, <<"T","S","h","a","r","e","d","P","t","r">>, <<"T","U","n","i","q","u","e","P","t","r">>, <<"T","W","e","a","k","O","b","j","e","c","t","P","t","r">>,
              <<"T","S","u","b","c","l","a","s","s","O","f">>, <<"T","S","o","f","t","O","b","j","e","c","t","P","t","r">>, <<"T","S","o","f","t","C","l","a","s","s","P","t","r">>, <<"T","E","n","u","m","A","s","B","y","t","e">> }

Keywords == << <<"c","o","n","s","t">>, <<"t","y","p","e","n","a","m","e">>, <<"s","t","r","u","c","t">>, <<"c","l","a","s","s">>, <<"e","n","u","m">>, <<"v","i","r","t","u","a","l">>,
               <<"s","t","a","t","i","c">>, <<"i","n","l","i","n","e">>, <<"F","O","R","C","E","I","N","L","I","N","E">> >>

\* what a slice whose start is past its end does: the thread panics
Panic == <<"!panic">>

RECURSIVE RemoveKeywords(_, _)
RemoveKeywords(s, k) ==
    IF k > Len(Keywords) THEN s
    ELSE RemoveKeywords(RemoveKeyword(s, Keywords[k]), k + 1)

\* lines 478-495: keywords, API macro, pointer marks, last token, last segment
StripQualifiers(clean) ==
    LastSegment(LastToken(ReplacePtrRef(RemoveApi(RemoveKeywords(clean, 1)))))

RECURSIVE extract_clean_type(_)
extract_clean_type(text) ==
    LET clean == Trim(text)
        start == Find(clean, "<")
        end   == RFind(clean, ">")
    IN IF start # 0 /\ end # 0
       THEN IF end < start THEN Panic
            ELSE LET wrapper == Trim(SubSeq(clean, 1, start - 1))
                     inner   == SubSeq(clean, start + 1, end - 1)
                 IN IF wrapper \in Wrappers THEN extract_clean_type(inner)
                    ELSE StripQualifiers(wrapper)
       ELSE StripQualifiers(clean)

-----------------------------------------------------------------------------
(* TypeInferencer: the value text, the two query scans *)

\* Regex r"CreateDefaultSubobject\s*<\s*([a-zA-Z0-9_:]+)": the capture of the
\* match that starts at i, None when the pattern does not match there
CreateAt(s, i) ==
    LET lit == <<"C","r","e","a","t","e","D","e","f","a","u","l","t","S","u","b","o","b","j","e","c","t">>
        e   == i + Len(lit) - 1
        lt  == SkipSpace(s, e + 1)
        k   == SkipSpace(s, lt + 1)
        ke  == RunEnd(s, k, PathChar)
    IN IF /\ e <= Len(s)
          /\ SubSeq(s, i, e) = lit
          /\ lt <= Len(s) /\ s[lt] = "<"
          /\ ke >= k
       THEN Some(SubSeq(s, k, ke)) ELSE None

\* Regex r"([a-zA-Z0-9_]+)\s*<\s*([a-zA-Z0-9_:]+)" at i: group 1 is greedy and is
\* followed by a character outside its class, so it is the rest of the run
TemplateAt(s, i) ==
    LET e   == RunEnd(s, i, WordChar)
        lt  == SkipSpace(s, e + 1)
        k   == SkipSpace(s, lt + 1)
        ke  == RunEnd(s, k, PathChar)
    IN IF /\ e >= i
          /\ lt <= Len(s) /\ s[lt] = "<"
          /\ ke >= k
       THEN [some |-> TRUE, func |-> SubSeq(s, i, e), inner |-> SubSeq(s, k, ke)]
       ELSE [some |-> FALSE, func |-> <<>>, inner |-> <<>>]

\* Regex r"^([a-zA-Z0-9_:]+)\s*\("
CallAtStart(s) ==
    LET e  == RunEnd(s, 1, PathChar)
        lp == SkipSpace(s, e + 1)
    IN IF e >= 1 /\ lp <= Len(s) /\ s[lp] = "(" THEN Some(SubSeq(s, 1, e)) ELSE None

PeeledFunctions == { <<"N","e","w","O","b","j","e","c","t">>, <<"T","O","b","j","e","c","t","P","t","r">>, <<"T","S","h","a","r","e","d","P","t","r">> }

infer_from_value_text(value) ==
    LET text == Trim(value)
        C == {i \in 1..Len(text) : CreateAt(text, i).some}
        M == {i \in 1..Len(text) : TemplateAt(text, i).some}
    IN IF C # {} THEN Some(extract_clean_type(CreateAt(text, Min(C)).val))
       ELSE IF M # {}
       THEN LET cap == TemplateAt(text, Min(M))
            IN IF cap.func \in PeeledFunctions
               THEN Some(extract_clean_type(cap.inner))
               ELSE Some(extract_clean_type(cap.func))
       ELSE IF CallAtStart(text).some
       THEN Some(extract_clean_type(CallAtStart(text).val))
       ELSE None

\* find_identifier_in_decl: the declarator node is the tuple of the texts of the
\* identifier / field_identifier nodes of its subtree
find_identifier_in_decl(idents, target_name) ==
    \E i \in DOMAIN idents : Trim(idents[i]) = target_name

\* infer_from_assignment: matches is the tuple of (decl, value) matches in the
\* order the query cursor yields them; the while loop returns from the first
\* match that qualifies
RECURSIVE AssignLoop(_, _, _, _)
AssignLoop(matches, i, target_name, cursor_row) ==
    IF i > Len(matches) THEN None
    ELSE IF /\ find_identifier_in_decl(matches[i].idents, target_name)
            /\ matches[i].row <= cursor_row
    THEN infer_from_value_text(matches[i].value)
    ELSE AssignLoop(matches, i + 1, target_name, cursor_row)

infer_from_assignment(target_name, matches, cursor_row) ==
    AssignLoop(matches, 1, target_name, cursor_row)

\* infer_variable_type: one step of the while loop over the (type, decl) matches
\* st = [best_type, best_row]
DeclStep(st, m, target_name, assigns, cursor_row) ==
    IF /\ find_identifier_in_decl(m.idents, target_name)
       /\ m.row <= cursor_row
       /\ (~st.best_type.some \/ m.row >= st.best_row)
    THEN IF Trim(m.type_text) = <<"a","u","t","o">>
         THEN LET inferred == infer_from_assignment(target_name, assigns, cursor_row)
              IN [best_type |-> IF inferred.some THEN inferred ELSE st.best_type,
                  best_row  |-> m.row]
         ELSE [best_type |-> Some(extract_clean_type(Trim(m.type_text))),
               best_row  |-> m.row]
    ELSE st

RECURSIVE DeclLoop(_, _, _, _, _, _)
DeclLoop(st, decls, i, target_name, assigns, cursor_row) ==
    IF i > Len(decls) THEN st
    ELSE DeclLoop(DeclStep(st, decls[i], target_name, assigns, cursor_row),
                  decls, i + 1, target_name, assigns, cursor_row)

infer_variable_type(target_name, decls, assigns, cursor_row) ==
    LET st == DeclLoop([best_type |-> None, best_row |-> 0], decls, 1,
                       target_name, assigns, cursor_row)
    IN IF st.best_type.some THEN st.best_type
       ELSE infer_from_assignment(target_name, assigns, cursor_row)

-----------------------------------------------------------------------------
(* SymbolStore: the tables and the SELECT statements *)

\* a NULL column is None; ids are the primary keys
ClassRow(id, name, symbol_type, base_class) ==
    [id |-> id, name |-> name, symbol_type |-> symbol_type, base_class |-> base_class]
MemberRow(class_id, name, type, return_type, detail) ==
    [class_id |-> class_id, name |-> name, type |-> type,
     return_type |-> return_type, detail |-> detail]
Edge(child_id, parent_name) == [child_id |-> child_id, parent_name |-> parent_name]
EnumRow(enum_id, name) == [enum_id |-> enum_id, name |-> name]

Range(seq) == {seq[i] : i \in DOMAIN seq}

\* line 225: members m JOIN classes c ON m.class_id = c.id
\*           WHERE c.name = ? AND m.name = ?          (= is case-sensitive)
MemberCandidates(d, cls, member_name) ==
    {m \in Range(d.members) :
        /\ m.name = member_name
        /\ \E c \in Range(d.classes) : c.id = m.class_id /\ c.name = cls}

\* line 227: ORDER BY (CASE WHEN return_type IN ('T','T*','void') THEN 1 ELSE 0 END),
\*           length(return_type) DESC.  A NULL return_type compares to nothing, so
\*           its CASE is 0, and its NULL length sorts last under DESC.
UninformativeRank(m) ==
    IF m.return_type.some /\ m.return_type.val \in { <<"T">>, <<"T","*">>, <<"v","o","i","d">> } THEN 1 ELSE 0
LengthRank(m) == IF m.return_type.some THEN Len(m.return_type.val) ELSE -1
MemberBefore(a, b) ==
    \/ UninformativeRank(a) < UninformativeRank(b)
    \/ UninformativeRank(a) = UninformativeRank(b) /\ LengthRank(a) >= LengthRank(b)

\* LIMIT 1: the rows that can come first (rows that tie come in either order)
FirstMemberRows(d, cls, member_name) ==
    LET C == MemberCandidates(d, cls, member_name)
    IN {m \in C : \A o \in C : MemberBefore(m, o)}

\* line 239: SELECT parent_name FROM inheritance i JOIN classes c ON i.child_id = c.id
\*           WHERE c.name = ?                           (rows in rowid order)
ParentsByName(d, cls) ==
    LET Matches(e) == \E c \in Range(d.classes) : c.id = e.child_id /\ c.name = cls
        rows == SelectSeq(d.inheritance, Matches)
    IN [i \in DOMAIN rows |-> rows[i].parent_name]

\* line 288: SELECT base_class FROM classes WHERE name = ? AND symbol_type = 'typedef'
\*           ORDER BY (CASE WHEN base_class IS NOT NULL AND base_class != ''
\*                     THEN 0 ELSE 1 END) LIMIT 1
HasBase(c) == c.base_class.some /\ c.base_class.val # <<>>
FirstTypedefRows(d, name) ==
    LET C == {c \in Range(d.classes) : c.name = name /\ c.symbol_type = "typedef"}
    IN IF \E c \in C : HasBase(c) THEN {c \in C : HasBase(c)} ELSE C

\* line 316: SELECT c.id FROM classes c LEFT JOIN members m ON c.id = m.class_id
\*           WHERE LOWER(c.name) = LOWER(?) GROUP BY c.id
\*           ORDER BY COUNT(m.id) DESC LIMIT 1
MemberCount(d, id) == Cardinality({i \in DOMAIN d.members : d.members[i].class_id = id})
FirstClassIds(d, name) ==
    LET C == {c.id : c \in {r \in Range(d.classes) : ToLower(r.name) = ToLower(name)}}
    IN {id \in C : \A o \in C : MemberCount(d, id) >= MemberCount(d, o)}

\* lines 320, 329, 335: the rows of one class id, in rowid order
MembersOf(d, id) == LET T(m) == m.class_id = id IN SelectSeq(d.members, T)
EnumValuesOf(d, id) == LET T(e) == e.enum_id = id IN SelectSeq(d.enum_values, T)

\* a walk that never follows an inheritance edge
ParentsOfNone(d, id) == <<>>

ParentsOf(d, id) ==
    LET T(e) == e.child_id = id
        rows == SelectSeq(d.inheritance, T)
    IN [i \in DOMAIN rows |-> rows[i].parent_name]

\* line 350: SELECT 1 FROM classes WHERE LOWER(name) = LOWER(?) LIMIT 1
ClassExists(d, name) == \E c \in Range(d.classes) : ToLower(c.name) = ToLower(name)

-----------------------------------------------------------------------------
(* MemberAssembler: completion items *)

\* a kind mapping without the default arm's value
map_kind_no_default(k) ==
    IF k = <<"f","u","n","c","t","i","o","n">> THEN 2
    ELSE IF k = <<"v","a","r","i","a","b","l","e">> \/ k = <<"p","r","o","p","e","r","t","y">> THEN 5
    ELSE IF k = <<"e","n","u","m","_","i","t","e","m">> THEN 20
    ELSE 0

map_kind(k) ==
    IF k = <<"f","u","n","c","t","i","o","n">> THEN 2
    ELSE IF k = <<"v","a","r","i","a","b","l","e">> \/ k = <<"p","r","o","p","e","r","t","y">> THEN 5
    ELSE IF k = <<"e","n","u","m","_","i","t","e","m">> THEN 20
    ELSE 1

OrDefault(o) == IF o.some THEN o.val ELSE <<>>

\* an item whose detail is the cleaned return type instead of the stored one
MemberItemCleaned(m) ==
    [label |-> m.name, kind |-> map_kind(m.type.val),
     detail |-> IF m.return_type.some THEN extract_clean_type(m.return_type.val) ELSE <<>>,
     documentation |-> OrDefault(m.detail), insertText |-> m.name]

\* line 326
MemberItem(m) ==
    [label |-> m.name, kind |-> map_kind(m.type.val), detail |-> OrDefault(m.return_type),
     documentation |-> OrDefault(m.detail), insertText |-> m.name]

\* line 332
EnumItem(e) ==
    [label |-> e.name, kind |-> 20, detail |-> <<"e","n","u","m"," ","i","t","e","m">>, insertText |-> e.name]

\* row.get::<_, String>(1) of a NULL type is an error of the query
Decodable(rows) == \A i \in DOMAIN rows : rows[i].type.some

MemberItems(rows) == [i \in DOMAIN rows |-> MemberItem(rows[i])]
EnumItems(rows) == [i \in DOMAIN rows |-> EnumItem(rows[i])]

-----------------------------------------------------------------------------
(* The databases and the requests the model draws from *)

Classes == <<
    ClassRow(1,  <<"U","F","o","o">>,       "class",   None),
    ClassRow(2,  <<"u","f","o","o">>,       "class",   None),
    ClassRow(3,  <<"U","B","a","r">>,       "class",   None),
    ClassRow(4,  <<"A","A","c","t","o","r">>,     "class",   None),
    ClassRow(5,  <<"U","O","b","j","e","c","t">>,    "class",   None),
    ClassRow(6,  <<"U","B","a","r">>,       "class",   None),
    ClassRow(7,  <<"E","M","y","E","n","u","m">>,    "enum",    None),
    ClassRow(8,  <<"T","T","r","a","n","s","f","o","r","m">>, "struct",  None),
    ClassRow(9,  <<"U","B","r","o","k","e","n">>,    "class",   None),
    ClassRow(10, <<"F","T","r","a","n","s","f","o","r","m">>, "typedef", Some( <<"U","E",":",":","M","a","t","h",":",":","T","T","r","a","n","s","f","o","r","m","<","d","o","u","b","l","e",">">> )),
    ClassRow(11, <<"F","A","l","i","a","s">>,     "typedef", Some( <<"F","O","t","h","e","r">> )),
    ClassRow(12, <<"F","O","t","h","e","r">>,     "typedef", Some( <<"F","A","l","i","a","s","*">> )),
    ClassRow(13, <<"F","T","1">>,        "typedef", Some( <<"F","T","2">> )),
    ClassRow(14, <<"F","T","2">>,        "typedef", Some( <<"F","T","3">> )),
    ClassRow(15, <<"F","T","3">>,        "typedef", Some( <<"F","T","4">> )),
    ClassRow(16, <<"F","T","4">>,        "typedef", Some( <<"F","T","5">> )),
    ClassRow(17, <<"F","T","5">>,        "typedef", Some( <<"U","F","o","o">> )),
    ClassRow(18, <<"F","S","e","l","f">>,      "typedef", Some( <<"c","o","n","s","t"," ","F","S","e","l","f","&">> )),
    ClassRow(19, <<"F","N","u","l","l">>,      "typedef", None),
    ClassRow(20, <<"F","E","m","p","t","y">>,     "typedef", Some( <<>> )),
    ClassRow(21, <<"F","D","u","p">>,       "typedef", Some( <<>> )),
    ClassRow(22, <<"F","D","u","p">>,       "typedef", Some( <<"T","O","b","j","e","c","t","P","t","r","<","U","B","a","r",">">> )),
    ClassRow(23, <<"F","T","i","e">>,       "typedef", Some( <<"U","F","o","o">> )),
    ClassRow(24, <<"F","T","i","e">>,       "typedef", Some( <<"U","B","a","r">> )),
    ClassRow(25, <<"t","t","r","a","n","s","f","o","r","m">>, "struct",  None) >>

Members == <<
    MemberRow(1, <<"B","a","r">>,    Some( <<"f","u","n","c","t","i","o","n">> ), Some( <<"U","B","a","r","*">> ), Some( <<"U","F","U","N","C","T","I","O","N","(",")">> )),
    MemberRow(1, <<"C","o","u","n","t">>,  Some( <<"v","a","r","i","a","b","l","e">> ), Some( <<"i","n","t","3","2">> ), None),
    MemberRow(2, <<"L","e","g","a","c","y">>, Some( <<"f","u","n","c","t","i","o","n">> ), Some( <<"v","o","i","d">> ), None),
    MemberRow(3, <<"O","w","n","e","r">>,  Some( <<"f","u","n","c","t","i","o","n">> ), Some( <<"T","*">> ), None),
    MemberRow(3, <<"O","w","n","e","r">>,  Some( <<"f","u","n","c","t","i","o","n">> ), Some( <<"A","A","c","t","o","r","*">> ), None),
    MemberRow(4, <<"O","w","n","e","r">>,  Some( <<"p","r","o","p","e","r","t","y">> ), Some( <<"T","O","b","j","e","c","t","P","t","r","<","U","O","b","j","e","c","t",">">> ), None),
    MemberRow(4, <<"N","a","m","e">>,   Some( <<"f","u","n","c","t","i","o","n">> ), Some( <<"F","S","t","r","i","n","g">> ), None),
    MemberRow(5, <<"N","a","m","e">>,   Some( <<"f","u","n","c","t","i","o","n">> ), Some( <<"F","N","a","m","e">> ), None),
    MemberRow(5, <<"O","u","t","e","r">>,  Some( <<"p","r","o","p","e","r","t","y">> ), None, None),
    MemberRow(5, <<"T","a","g">>,    Some( <<"m","a","c","r","o">> ), Some( <<>> ), None),
    MemberRow(7, <<"M","a","x">>,    Some( <<"e","n","u","m","_","i","t","e","m">> ), None, None),
    MemberRow(8, <<"G","e","t","L","o","c","a","t","i","o","n">>, Some( <<"f","u","n","c","t","i","o","n">> ), Some( <<"F","V","e","c","t","o","r">> ), None),
    MemberRow(9, <<"B","a","d">>,    None, None, None),
    MemberRow(25, <<"S","c","a","l","e">>, Some( <<"v","a","r","i","a","b","l","e">> ), Some( <<"d","o","u","b","l","e">> ), None) >>

EnumValues == << EnumRow(7, <<"A">>), EnumRow(7, <<"B">>), EnumRow(7, <<"C">>) >>

\* edges every database has: a self-reference, an edge of the row that the
\* lookup of "ufoo" does not select, and an edge that closes a cycle when UFoo
\* reaches UObject
FixedEdges == << Edge(4, <<"A","A","c","t","o","r">>), Edge(2, <<"U","O","b","j","e","c","t">>), Edge(5, <<"U","F","o","o">>) >>

\* edges a database may record, in any order and number up to MaxEdges
EdgePool == { Edge(1, <<"U","B","a","r">>), Edge(1, <<"A","A","c","t","o","r">>), Edge(3, <<"U","O","b","j","e","c","t">>) }

MaxEdges == 3

RECURSIVE SeqsUpTo(_, _)
SeqsUpTo(S, n) ==
    IF n = 0 THEN {<<>>}
    ELSE LET P == SeqsUpTo(S, n - 1)
         IN P \cup {Append(q, x) : q \in {r \in P : Len(r) = n - 1}, x \in S}

InheritanceTables == {FixedEdges \o t : t \in SeqsUpTo(EdgePool, MaxEdges)}

\* the database of the request: the tables above and its inheritance table
db == [classes |-> Classes, members |-> Members, enum_values |-> EnumValues,
       inheritance |-> inheritance]

\* one match of the query of infer_variable_type, of infer_from_assignment
DeclMatch(type_text, row, idents) ==
    [type_text |-> type_text, row |-> row, idents |-> idents]
AssignMatch(row, idents, value) == [row |-> row, idents |-> idents, value |-> value]

Request(ctx, kind, text, links, encl, decls, assigns, cursor_row) ==
    [ctx |-> ctx, kind |-> kind, text |-> text, chain |-> links, encl |-> encl,
     decls |-> decls, assigns |-> assigns, cursor_row |-> cursor_row]

DeclTypes == { <<"U","F","o","o">>, <<"U","F","o","o","*">>, <<"T","O","b","j","e","c","t","P","t","r","<","U","F","o","o",">">>, <<"c","o","n","s","t"," ","T","O","b","j","e","c","t","P","t","r","<","U","F","o","o",">","&">>,
               <<"u","f","o","o">>, <<"U","B","a","r">>, <<"A","A","c","t","o","r">>, <<"U","O","b","j","e","c","t">>, <<"E","M","y","E","n","u","m">>, <<"F","T","r","a","n","s","f","o","r","m">>,
               <<"F","A","l","i","a","s">>, <<"F","T","1">>, <<"F","T","3">>, <<"F","S","e","l","f">>, <<"F","N","u","l","l">>, <<"F","E","m","p","t","y">>, <<"F","D","u","p">>,
               <<"F","T","i","e">>, <<"U","B","r","o","k","e","n">>, <<"U","n","k","n","o","w","n">>, <<"T">>, <<"v","o","i","d">>, <<"T","A","r","r","a","y","<","U","F","o","o",">">>,
               <<"c","l","a","s","s"," ","U","F","o","o"," ","*">>, <<"C","O","R","E","_","A","P","I"," ","U","E",":",":","M","a","t","h",":",":","T","T","r","a","n","s","f","o","r","m","<","f","l","o","a","t",">">> }
AutoValues == { <<"N","e","w","O","b","j","e","c","t","<","U","F","o","o",">","(",")">>, <<"C","r","e","a","t","e","D","e","f","a","u","l","t","S","u","b","o","b","j","e","c","t","<","U","B","a","r",">","(","t","h","i","s",")">>,
                <<"F","T","r","a","n","s","f","o","r","m","(","1",")">>, <<"M","a","k","e","S","h","a","r","e","d","<","U","F","o","o",">","(",")">>, <<"4","2">> }
Chains == { << <<"O","w","n","e","r">> >>, << <<"N","a","m","e">> >>, << <<"B","a","r">> >>, << <<"O","w","n","e","r">>, <<"N","a","m","e">> >>,
            << <<"Z","z","z">> >> }
Enclosing == { None, Some( <<"U","F","o","o">> ), Some( <<"U","B","a","r">> ) }

Typed(t, links) ==
    Request("member", "identifier", <<"x">>, links, None,
            << DeclMatch(t, 0, << <<"x">> >>) >>, <<>>, 1)

Requests ==
    {Typed(t, <<>>) : t \in DeclTypes}
    \cup {Typed(t, c) : t \in { <<"U","F","o","o">>, <<"F","T","1">>, <<"U","O","b","j","e","c","t">> }, c \in Chains}
    \cup {Request("member", "identifier", <<"x">>, <<>>, None,
                  << DeclMatch( <<"a","u","t","o">>, 0, << <<"x">> >>) >>,
                  << AssignMatch(0, << <<"x">> >>, v) >>, 1) : v \in AutoValues}
    \cup {Request("member", "identifier", n, <<>>, e, <<>>, <<>>, 1) :
            n \in { <<"O","w","n","e","r">>, <<"B","a","r">>, <<"U","F","o","o">>, <<"z","z","z">>, <<"t","h","i","s">>, <<" ">> }, e \in Enclosing}
    \cup {Request("member", "this", <<"t","h","i","s">>, c, e, <<>>, <<>>, 1) :
            c \in {<<>>, << <<"O","w","n","e","r">> >>}, e \in Enclosing}
    \cup {Request("member", "qualified_identifier", t, <<>>, None, <<>>, <<>>, 1) :
            t \in { <<"U","E",":",":","M","a","t","h",":",":","T","T","r","a","n","s","f","o","r","m">>, <<"F","o","o",":",":","U","n","k","n","o","w","n">> }}
    \cup {Request("member", "call_expression", f, <<>>, e, <<>>, <<>>, 1) :
            f \in { <<"O","w","n","e","r">>, <<"N","a","m","e">> }, e \in Enclosing}
    \cup {Request("member", "number_literal", <<"4","2">>, <<>>, None, <<>>, <<>>, 1)}
    \cup {Request("static", "qualified_identifier", s, <<>>, None, <<>>, <<>>, 1) :
            s \in { <<"E","M","y","E","n","u","m">>, <<"U","F","o","o">>, <<"F","T","r","a","n","s","f","o","r","m">>, <<"U","E",":",":","M","a","t","h",":",":","T","T","r","a","n","s","f","o","r","m">>,
                    <<"F","A","l","i","a","s">>, <<"T","O","b","j","e","c","t","P","t","r","<","U","B","a","r",">">> }}
    \cup {Request("implicit", "identifier", <<"m">>, <<>>, e, <<>>, <<>>, 1) : e \in Enclosing}
    \cup {Request("none", "comment", <<>>, <<>>, None, <<>>, <<>>, 1)}

-----------------------------------------------------------------------------
(* The request *)

Idle == [kind |-> "none", items |-> <<>>]

\* Ok(json!(members)), Ok(json!([]))
Ok(items) == [kind |-> "ok", items |-> items]

\* a failure that still hands back what had been collected
PartialResults(partial) == [kind |-> "ok", items |-> partial]

\* the ? operator on a failed query: the error is returned, the locals are dropped
HardFailure(partial) == [kind |-> "error", items |-> <<>>]

Init ==
    /\ inheritance \in InheritanceTables
    /\ req \in Requests
    /\ pc = "start"
    /\ cur = None /\ chain = <<>>
    /\ fmMember = <<>> /\ fmRet = ""
    /\ tdCur = <<>> /\ tdIter = 0 /\ tdRet = ""
    /\ queue = <<>> /\ visited = {} /\ walked = <<>> /\ result = <<>>
    /\ response = Idle
    /\ raw = <<>> /\ cleaned = None

\* a loop that runs once more
TypedefLimitOff == 3 + 1

\* line 287: for _ in 0..3
TypedefLimit == 3

\* lines 285-286: resolve_typedef is entered; ret is where it returns to
CallResolveTypedef(type_name, ret) ==
    LET current == extract_clean_type(type_name)
    IN /\ tdCur' = current
       /\ tdIter' = 0
       /\ tdRet' = ret
       /\ pc' = IF current = <<>> \/ current = <<"T">> \/ current = <<"v","o","i","d">>
                THEN "td_done" ELSE "td_loop"

\* lines 214-215: find_member_return_type is entered
CallFindMember(class_name, member_name, ret) ==
    /\ fmMember' = member_name
    /\ fmRet' = ret
    /\ CallResolveTypedef(extract_clean_type(class_name), "find")

\* lines 310-311 and 218-219: a walk starts
StartWalk(name) ==
    /\ queue' = <<name>>
    /\ visited' = {}
    /\ walked' = <<>>

Respond(r) ==
    /\ response' = r
    /\ pc' = "done"

\* line 93: no rule of the classifier matched
StartNone ==
    /\ pc = "start" /\ req.ctx = "none"
    /\ Respond(Ok(<<>>))
    /\ UNCHANGED <<inheritance, req, cur, chain, fmMember, fmRet, tdCur, tdIter, tdRet,
                   queue, visited, walked, result, raw, cleaned>>

\* lines 83-91: implicit this
StartImplicit ==
    /\ pc = "start" /\ req.ctx = "implicit"
    /\ IF req.encl.some
       THEN /\ StartWalk(req.encl.val)
            /\ result' = <<>>
            /\ pc' = "fetch_loop"
            /\ UNCHANGED response
       ELSE /\ Respond(Ok(<<>>))
            /\ UNCHANGED <<queue, visited, walked, result>>
    /\ UNCHANGED <<inheritance, req, cur, chain, fmMember, fmRet, tdCur, tdIter, tdRet,
                   raw, cleaned>>

\* lines 60-62, 301-303: resolve_static_members
StartStatic ==
    /\ pc = "start" /\ req.ctx = "static"
    /\ CallResolveTypedef(extract_clean_type(req.text), "fetch")
    /\ UNCHANGED <<inheritance, req, cur, chain, fmMember, fmRet, queue, visited, walked,
                   result, response, raw, cleaned>>

IdentifierKinds == {"identifier", "type_identifier", "field_identifier",
                    "namespace_identifier", "scoped_type_identifier"}

\* lines 145-149: resolve_expression_type of a this node
StartThis ==
    /\ pc = "start" /\ req.ctx = "member" /\ req.kind = "this"
    /\ cur' = req.encl
    /\ chain' = req.chain
    /\ pc' = "chain"
    /\ UNCHANGED <<inheritance, req, fmMember, fmRet, tdCur, tdIter, tdRet, queue, visited,
                   walked, result, response, raw, cleaned>>

\* lines 150-172, up to the first database query
StartIdentifier ==
    /\ pc = "start" /\ req.ctx = "member" /\ req.kind \in IdentifierKinds
    /\ chain' = req.chain
    /\ LET name == Trim(req.text)
           t == infer_variable_type(name, req.decls, req.assigns, req.cursor_row)
       IN IF name = <<>>
          THEN /\ cur' = None /\ pc' = "chain"
               /\ UNCHANGED <<fmMember, fmRet, tdCur, tdIter, tdRet>>
          ELSE IF name = <<"t","h","i","s">>
          THEN /\ cur' = req.encl /\ pc' = "chain"
               /\ UNCHANGED <<fmMember, fmRet, tdCur, tdIter, tdRet>>
          ELSE IF t.some
          THEN /\ cur' = t /\ pc' = "chain"
               /\ UNCHANGED <<fmMember, fmRet, tdCur, tdIter, tdRet>>
          ELSE IF req.encl.some
          THEN /\ CallFindMember(req.encl.val, name, "identifier")
               /\ UNCHANGED cur
          ELSE /\ pc' = "known"
               /\ UNCHANGED <<cur, fmMember, fmRet, tdCur, tdIter, tdRet>>
    /\ UNCHANGED <<inheritance, req, queue, visited, walked, result, response, raw, cleaned>>

\* lines 173-179
StartQualified ==
    /\ pc = "start" /\ req.ctx = "member" /\ req.kind = "qualified_identifier"
    /\ chain' = req.chain
    /\ pc' = "known"
    /\ UNCHANGED <<inheritance, req, cur, fmMember, fmRet, tdCur, tdIter, tdRet, queue, visited,
                   walked, result, response, raw, cleaned>>

\* lines 190-197: a call of a bare function name
StartCall ==
    /\ pc = "start" /\ req.ctx = "member" /\ req.kind = "call_expression"
    /\ chain' = req.chain
    /\ IF req.encl.some
       THEN /\ CallFindMember(req.encl.val, Trim(req.text), "expression")
            /\ UNCHANGED cur
       ELSE /\ cur' = None /\ pc' = "chain"
            /\ UNCHANGED <<fmMember, fmRet, tdCur, tdIter, tdRet>>
    /\ UNCHANGED <<inheritance, req, queue, visited, walked, result, response, raw, cleaned>>

\* line 209
StartOther ==
    /\ pc = "start" /\ req.ctx = "member"
    /\ req.kind \notin IdentifierKinds \cup {"this", "qualified_identifier", "call_expression"}
    /\ cur' = None
    /\ chain' = req.chain
    /\ pc' = "chain"
    /\ UNCHANGED <<inheritance, req, fmMember, fmRet, tdCur, tdIter, tdRet, queue, visited,
                   walked, result, response, raw, cleaned>>

\* a loop that follows the base text as stored
RawBase(base) == base

\* line 292
CleanBase(base) == extract_clean_type(base)

\* lines 287-297: one iteration of the for loop, its query answered
TypedefLookup ==
    /\ pc = "td_loop"
    /\ tdIter' = tdIter + 1
    /\ LET rows == FirstTypedefRows(db, tdCur)
       IN IF rows = {}
          THEN /\ pc' = "td_done" /\ UNCHANGED tdCur
          ELSE \E row \in rows :
                 IF ~row.base_class.some
                 THEN /\ pc' = "td_done" /\ UNCHANGED tdCur
                 ELSE LET clean == CleanBase(row.base_class.val)
                      IN IF clean = tdCur \/ clean = <<>>
                         THEN /\ pc' = "td_done" /\ UNCHANGED tdCur
                         ELSE /\ tdCur' = clean
                              /\ pc' = IF tdIter + 1 < TypedefLimit
                                       THEN "td_loop" ELSE "td_done"
    /\ UNCHANGED <<inheritance, req, cur, chain, fmMember, fmRet, tdRet, queue, visited,
                   walked, result, response, raw, cleaned>>

\* lines 288-291: the query fails
TypedefFail ==
    /\ pc = "td_loop"
    /\ tdIter' = tdIter + 1
    /\ Respond(HardFailure(<<>>))
    /\ UNCHANGED <<inheritance, req, cur, chain, fmMember, fmRet, tdCur, tdRet, queue, visited,
                   walked, result, raw, cleaned>>

\* line 298 into lines 128 and 304: the resolved name starts the member walk
TypedefReturnToFetch ==
    /\ pc = "td_done" /\ tdRet = "fetch"
    /\ StartWalk(tdCur)
    /\ result' = <<>>
    /\ pc' = "fetch_loop"
    /\ UNCHANGED <<inheritance, req, cur, chain, fmMember, fmRet, tdCur, tdIter, tdRet,
                   response, raw, cleaned>>

\* line 298 into line 218: the resolved name starts the search for the member
TypedefReturnToFind ==
    /\ pc = "td_done" /\ tdRet = "find"
    /\ StartWalk(tdCur)
    /\ pc' = "find_loop"
    /\ UNCHANGED <<inheritance, req, cur, chain, fmMember, fmRet, tdCur, tdIter, tdRet,
                   result, response, raw, cleaned>>

\* lines 220, 312: Vec::pop takes the last element and leaves the rest
VecPop(q) == [item |-> q[Len(q)], rest |-> SubSeq(q, 1, Len(q) - 1)]
Top(q) == VecPop(q).item
Pop(q) == VecPop(q).rest

\* a walk without the visited check
SeenNever(v, name) == FALSE

\* lines 221, 313: visited.contains_key
Seen(v, name) == name \in v

\* find_member_return_type returns r to the place that called it:
\* lines 161-167 (an identifier: a found member, else the known-type check) or
\* lines 186, 193, 203 (the type of the expression)
FindReturn(r) ==
    IF fmRet = "identifier" /\ ~r.some
    THEN /\ pc' = "known" /\ UNCHANGED cur
    ELSE /\ cur' = r /\ pc' = "chain"

\* line 220 false, line 243
FindExhausted ==
    /\ pc = "find_loop" /\ queue = <<>>
    /\ FindReturn(None)
    /\ UNCHANGED <<inheritance, req, chain, fmMember, fmRet, tdCur, tdIter, tdRet, queue,
                   visited, walked, result, response, raw, cleaned>>

\* line 221
FindSkipVisited ==
    /\ pc = "find_loop" /\ queue # <<>> /\ Seen(visited, Top(queue))
    /\ queue' = Pop(queue)
    /\ UNCHANGED <<inheritance, req, pc, cur, chain, fmMember, fmRet, tdCur, tdIter, tdRet,
                   visited, walked, result, response, raw, cleaned>>

\* lines 222-236: the member row has a return type
FindFound ==
    /\ pc = "find_loop" /\ queue # <<>> /\ ~Seen(visited, Top(queue))
    /\ \E row \in FirstMemberRows(db, Top(queue), fmMember) :
         /\ row.return_type.some
         /\ FindReturn(Some(extract_clean_type(row.return_type.val)))
    /\ queue' = Pop(queue)
    /\ visited' = visited \cup {Top(queue)}
    /\ walked' = Append(walked, [name |-> Top(queue), id |-> 0, hit |-> TRUE])
    /\ UNCHANGED <<inheritance, req, chain, fmMember, fmRet, tdCur, tdIter, tdRet, result,
                   response, raw, cleaned>>

\* lines 222-241: no member row, or one whose return type is NULL; the parents
\* are pushed in the order the query returns them
FindDescend ==
    /\ pc = "find_loop" /\ queue # <<>> /\ ~Seen(visited, Top(queue))
    /\ LET rows == FirstMemberRows(db, Top(queue), fmMember)
       IN rows = {} \/ \E row \in rows : ~row.return_type.some
    /\ queue' = Pop(queue) \o ParentsByName(db, Top(queue))
    /\ visited' = visited \cup {Top(queue)}
    /\ walked' = Append(walked, [name |-> Top(queue), id |-> 0, hit |-> FALSE])
    /\ UNCHANGED <<inheritance, req, pc, cur, chain, fmMember, fmRet, tdCur, tdIter, tdRet,
                   result, response, raw, cleaned>>

\* lines 224-241: one of the two queries fails
FindFail ==
    /\ pc = "find_loop" /\ queue # <<>> /\ ~Seen(visited, Top(queue))
    /\ Respond(HardFailure(<<>>))
    /\ UNCHANGED <<inheritance, req, cur, chain, fmMember, fmRet, tdCur, tdIter, tdRet, queue,
                   visited, walked, result, raw, cleaned>>

\* the name is_known_type is asked about: lines 167 and 175
KnownName == IF req.kind = "qualified_identifier" THEN req.text ELSE Trim(req.text)

\* lines 347-352 into lines 167-171 and 175-178
Known ==
    /\ pc = "known"
    /\ LET clean == extract_clean_type(KnownName)
       IN cur' = IF clean # <<>> /\ ClassExists(db, clean) THEN Some(KnownName) ELSE None
    /\ pc' = "chain"
    /\ UNCHANGED <<inheritance, req, chain, fmMember, fmRet, tdCur, tdIter, tdRet, queue,
                   visited, walked, result, response, raw, cleaned>>

\* lines 350-351: the query fails
KnownFail ==
    /\ pc = "known"
    /\ extract_clean_type(KnownName) # <<>>
    /\ Respond(HardFailure(<<>>))
    /\ UNCHANGED <<inheritance, req, cur, chain, fmMember, fmRet, tdCur, tdIter, tdRet, queue,
                   visited, walked, result, raw, cleaned>>

\* lines 184, 201 false and line 131: the expression has no type
ChainNone ==
    /\ pc = "chain" /\ ~cur.some
    /\ Respond(Ok(<<>>))
    /\ UNCHANGED <<inheritance, req, cur, chain, fmMember, fmRet, tdCur, tdIter, tdRet, queue,
                   visited, walked, result, raw, cleaned>>

\* lines 184-186, 201-203: the next member access is applied to the type
ChainLink ==
    /\ pc = "chain" /\ cur.some /\ chain # <<>>
    /\ CallFindMember(cur.val, Trim(Head(chain)), "expression")
    /\ chain' = Tail(chain)
    /\ UNCHANGED <<inheritance, req, cur, queue, visited, walked, result, response, raw, cleaned>>

\* lines 124-125
ChainEnd ==
    /\ pc = "chain" /\ cur.some /\ chain = <<>>
    /\ CallResolveTypedef(cur.val, "fetch")
    /\ UNCHANGED <<inheritance, req, cur, chain, fmMember, fmRet, queue, visited, walked,
                   result, response, raw, cleaned>>

\* line 312 false, lines 340, 129, 305, 87-93
FetchExhausted ==
    /\ pc = "fetch_loop" /\ queue = <<>>
    /\ Respond(Ok(result))
    /\ UNCHANGED <<inheritance, req, cur, chain, fmMember, fmRet, tdCur, tdIter, tdRet, queue,
                   visited, walked, result, raw, cleaned>>

\* line 313
FetchSkipVisited ==
    /\ pc = "fetch_loop" /\ queue # <<>> /\ Seen(visited, Top(queue))
    /\ queue' = Pop(queue)
    /\ UNCHANGED <<inheritance, req, pc, cur, chain, fmMember, fmRet, tdCur, tdIter, tdRet,
                   visited, walked, result, response, raw, cleaned>>

\* lines 314-318: no class row has the name
FetchUnknown ==
    /\ pc = "fetch_loop" /\ queue # <<>> /\ ~Seen(visited, Top(queue))
    /\ FirstClassIds(db, Top(queue)) = {}
    /\ queue' = Pop(queue)
    /\ visited' = visited \cup {Top(queue)}
    /\ walked' = Append(walked, [name |-> Top(queue), id |-> 0, hit |-> FALSE])
    /\ UNCHANGED <<inheritance, req, pc, cur, chain, fmMember, fmRet, tdCur, tdIter, tdRet,
                   result, response, raw, cleaned>>

\* lines 314-337: the members, the enum values and the parents of the class row
FetchExpand ==
    /\ pc = "fetch_loop" /\ queue # <<>> /\ ~Seen(visited, Top(queue))
    /\ \E class_id \in FirstClassIds(db, Top(queue)) :
         /\ Decodable(MembersOf(db, class_id))
         /\ result' = result \o MemberItems(MembersOf(db, class_id))
                             \o EnumItems(EnumValuesOf(db, class_id))
         /\ queue' = Pop(queue) \o ParentsOf(db, class_id)
         /\ walked' = Append(walked, [name |-> Top(queue), id |-> class_id, hit |-> TRUE])
    /\ visited' = visited \cup {Top(queue)}
    /\ UNCHANGED <<inheritance, req, pc, cur, chain, fmMember, fmRet, tdCur, tdIter, tdRet,
                   response, raw, cleaned>>

\* lines 316-337: one of the queries fails, or a row cannot be decoded
FetchFail ==
    /\ pc = "fetch_loop" /\ queue # <<>> /\ ~Seen(visited, Top(queue))
    /\ Respond(HardFailure(result))
    /\ UNCHANGED <<inheritance, req, cur, chain, fmMember, fmRet, tdCur, tdIter, tdRet, queue,
                   visited, walked, result, raw, cleaned>>

Next ==
    \/ StartNone \/ StartImplicit \/ StartStatic
    \/ StartThis \/ StartIdentifier \/ StartQualified \/ StartCall \/ StartOther
    \/ TypedefLookup \/ TypedefFail \/ TypedefReturnToFetch \/ TypedefReturnToFind
    \/ FindExhausted \/ FindSkipVisited \/ FindFound \/ FindDescend \/ FindFail
    \/ Known \/ KnownFail
    \/ ChainNone \/ ChainLink \/ ChainEnd
    \/ FetchExhausted \/ FetchSkipVisited \/ FetchUnknown \/ FetchExpand \/ FetchFail

Spec == Init /\ [][Next]_vars

-----------------------------------------------------------------------------
(* TypeCleaner check: inputs *)

PlainNames == { <<"U","F","o","o">>, <<"U","B","a","r">>, <<"A","A","c","t","o","r">>, <<"F","V","e","c","t","o","r">>, <<"E","M","y","E","n","u","m">>, <<"T">> }
\* the template names the inputs are built with: the eight smart-pointer
\* wrappers and three templates that are not peeled
SmartPointers == { <<"T","O","b","j","e","c","t","P","t","r">>, <<"T","S","h","a","r","e","d","P","t","r">>, <<"T","U","n","i","q","u","e","P","t","r">>, <<"T","W","e","a","k","O","b","j","e","c","t","P","t","r">>,
                   <<"T","S","u","b","c","l","a","s","s","O","f">>, <<"T","S","o","f","t","O","b","j","e","c","t","P","t","r">>, <<"T","S","o","f","t","C","l","a","s","s","P","t","r">>, <<"T","E","n","u","m","A","s","B","y","t","e">> }
Templates == SmartPointers \cup { <<"T","A","r","r","a","y">>, <<"T","M","a","p">>, <<"N","e","w","O","b","j","e","c","t">> }
Prefixes == { <<>>, <<"c","o","n","s","t"," ">>, <<"c","l","a","s","s"," ">>, <<"C","O","R","E","_","A","P","I"," ">>, <<"U","E",":",":","M","a","t","h",":",":">>, <<" ">> }
Suffixes == { <<>>, <<"*">>, <<"&">>, <<" ","c","o","n","s","t","*">>, <<":",":","T","y","p","e">> }

Wrap(w, t) == w \o <<"<">> \o t \o <<">">>

CleanCores ==
    PlainNames
    \cup {Wrap(w, t) : w \in Templates, t \in PlainNames}
    \cup {Wrap(w, Wrap(v, <<"U","F","o","o">>)) : w \in Templates, v \in Templates}

CleanInputs ==
    {p \o c \o s : p \in Prefixes, c \in CleanCores, s \in Suffixes}
    \cup { <<>>, <<"v","o","i","d">>, <<"T","*">>, <<"a",">","b","<","c">>, <<"T","A","r","r","a","y","<","i","n","t">>, <<"a",":",":",":","b">>, <<"F","o","o",":",":">>,
           <<"c","o","n","s","t","a","n","t">>, <<"M","Y","_","A","P","I">>, <<"x","_","A","P","I">>, <<"s","t","r","u","c","t"," ","F","F","o","o">>, <<"e","n","u","m"," ","c","l","a","s","s"," ","E","B","a","r">> }

InitClean ==
    /\ raw \in CleanInputs
    /\ cleaned = None
    /\ pc = "clean"
    /\ inheritance = <<>> /\ req = <<>> /\ cur = None /\ chain = <<>>
    /\ fmMember = <<>> /\ fmRet = "" /\ tdCur = <<>> /\ tdIter = 0 /\ tdRet = ""
    /\ queue = <<>> /\ visited = {} /\ walked = <<>> /\ result = <<>>
    /\ response = Idle

Clean ==
    /\ pc = "clean"
    /\ cleaned' = Some(extract_clean_type(raw))
    /\ pc' = "cleaned"
    /\ UNCHANGED <<inheritance, req, cur, chain, fmMember, fmRet, tdCur, tdIter, tdRet,
                   queue, visited, walked, result, response, raw>>

NextClean == Clean

SpecClean == InitClean /\ [][NextClean]_vars

-----------------------------------------------------------------------------
(* fetch_members_recursive on its own: every start name, every database.
   The call runs on the calling thread, which keeps running, so a walk that
   can take a step takes it. *)

StartNames == { <<"U","F","o","o">>, <<"u","f","o","o">>, <<"U","B","a","r">>, <<"A","A","c","t","o","r">>, <<"U","O","b","j","e","c","t">>, <<"E","M","y","E","n","u","m">>,
                <<"U","B","r","o","k","e","n">>, <<"T","T","r","a","n","s","f","o","r","m">>, <<"F","T","1">>, <<"U","n","k","n","o","w","n">> }

InitWalk ==
    /\ inheritance \in InheritanceTables
    /\ req \in {Request("implicit", "identifier", <<"m">>, <<>>, Some(n), <<>>, <<>>, 1) :
                  n \in StartNames}
    /\ pc = "fetch_loop"
    /\ queue = <<req.encl.val>> /\ visited = {} /\ walked = <<>> /\ result = <<>>
    /\ cur = None /\ chain = <<>>
    /\ fmMember = <<>> /\ fmRet = ""
    /\ tdCur = <<>> /\ tdIter = 0 /\ tdRet = ""
    /\ response = Idle
    /\ raw = <<>> /\ cleaned = None

NextWalk ==
    FetchExhausted \/ FetchSkipVisited \/ FetchUnknown \/ FetchExpand \/ FetchFail

SpecWalk == InitWalk /\ [][NextWalk]_vars /\ WF_vars(NextWalk)

-----------------------------------------------------------------------------
(* infer_from_assignment on its own: every tuple of matches, every cursor row *)

MaxRow == 1
MaxMatches == 2

\* the matches of one source text: the query cursor yields them in document
\* order, so their start rows do not decrease
AssignPool ==
    {AssignMatch(r, << n >>, v) :
        r \in 0..MaxRow, n \in { <<"x">>, <<"y">> },
        v \in { <<"N","e","w","O","b","j","e","c","t","<","U","F","o","o",">","(",")">>, <<"N","e","w","O","b","j","e","c","t","<","U","B","a","r",">","(",")">>, <<"4","2">> }}
InDocumentOrder(ms) == \A i, j \in DOMAIN ms : i < j => ms[i].row <= ms[j].row
AssignMatches == {ms \in SeqsUpTo(AssignPool, MaxMatches) : InDocumentOrder(ms)}

InitInfer ==
    /\ req \in {Request("member", "identifier", <<"x">>, <<>>, None, <<>>, ms, row) :
                  ms \in AssignMatches, row \in 0..MaxRow}
    /\ pc = "infer"
    /\ inheritance = <<>>
    /\ cur = None /\ chain = <<>>
    /\ fmMember = <<>> /\ fmRet = ""
    /\ tdCur = <<>> /\ tdIter = 0 /\ tdRet = ""
    /\ queue = <<>> /\ visited = {} /\ walked = <<>> /\ result = <<>>
    /\ response = Idle
    /\ raw = <<>> /\ cleaned = None

InferFromAssignment ==
    /\ pc = "infer"
    /\ cur' = infer_from_assignment(Trim(req.text), req.assigns, req.cursor_row)
    /\ pc' = "assigned"
    /\ UNCHANGED <<inheritance, req, chain, fmMember, fmRet, tdCur, tdIter, tdRet,
                   queue, visited, walked, result, response, raw, cleaned>>

NextInfer == InferFromAssignment

SpecInfer == InitInfer /\ [][NextInfer]_vars

-----------------------------------------------------------------------------
(* infer_variable_type on its own: every tuple of declaration matches *)

\* the (type, decl) matches of one source text, in document order
DeclPool ==
    {DeclMatch(t, r, << n >>) :
        t \in { <<"a","u","t","o">>, <<"U","F","o","o","*">>, <<"U","B","a","r">> }, r \in 0..MaxRow, n \in { <<"x">>, <<"y">> }}
DeclMatches == {ms \in SeqsUpTo(DeclPool, MaxMatches) : InDocumentOrder(ms)}

\* the (decl, value) matches of the same text: none, an initializer with a
\* type, one without, and one on the last row
AssignCases ==
    { <<>>,
      << AssignMatch(0, << <<"x">> >>, <<"N","e","w","O","b","j","e","c","t","<","A","A","c","t","o","r",">","(",")">> ) >>,
      << AssignMatch(0, << <<"x">> >>, <<"4","2">> ) >>,
      << AssignMatch(MaxRow, << <<"x">> >>, <<"N","e","w","O","b","j","e","c","t","<","A","A","c","t","o","r",">","(",")">> ) >> }

InitDecl ==
    /\ req \in {Request("member", "identifier", <<"x">>, <<>>, None, ds, as, row) :
                  ds \in DeclMatches, as \in AssignCases, row \in 0..MaxRow}
    /\ pc = "infer"
    /\ inheritance = <<>>
    /\ cur = None /\ chain = <<>>
    /\ fmMember = <<>> /\ fmRet = ""
    /\ tdCur = <<>> /\ tdIter = 0 /\ tdRet = ""
    /\ queue = <<>> /\ visited = {} /\ walked = <<>> /\ result = <<>>
    /\ response = Idle
    /\ raw = <<>> /\ cleaned = None

InferVariableType ==
    /\ pc = "infer"
    /\ cur' = infer_variable_type(Trim(req.text), req.decls, req.assigns, req.cursor_row)
    /\ pc' = "inferred"
    /\ UNCHANGED <<inheritance, req, chain, fmMember, fmRet, tdCur, tdIter, tdRet,
                   queue, visited, walked, result, response, raw, cleaned>>

NextDecl == InferVariableType

SpecDecl == InitDecl /\ [][NextDecl]_vars

-----------------------------------------------------------------------------
(* Properties *)

Labels(items) == {items[i].label : i \in DOMAIN items}
Names(log) == {log[i].name : i \in DOMAIN log}
Last(seq) == seq[Len(seq)]

\* the request was a member access whose expression had a type, and the member
\* walk from the resolved name tdCur returned its result
MembersReturned ==
    /\ pc = "done" /\ response.kind = "ok"
    /\ req.ctx = "member" /\ tdRet = "fetch"

C2_WalkTerminates ==
    /\ [][(pc = "fetch_loop" /\ walked' # walked) => Last(walked').name \notin visited]_vars
    /\ (pc = "fetch_loop") ~> (pc = "done")

\* the walk went round the cycle UFoo -> UBar -> UObject -> UFoo and returned
C2_Witness ==
    /\ pc = "done" /\ response.kind = "ok"
    /\ walked # <<>> /\ walked[1].name = <<"U","F","o","o">> /\ walked[1].id = 1
    /\ { <<"U","B","a","r">>, <<"U","O","b","j","e","c","t">> } \subseteq Names(walked)
    /\ Edge(5, <<"U","F","o","o">>) \in Range(inheritance)

\* C3: a step in which a database query fails ends the request with the
\* error and with no completion items, whatever had been collected, and is
\* the last step of the request.
C3_NoPartialResults ==
    [][(TypedefFail \/ FindFail \/ KnownFail \/ FetchFail) =>
          /\ response'.kind = "error"
          /\ response'.items = <<>>
          /\ pc' = "done"]_vars

\* a query of the walk failed after members had been collected
C3_Witness ==
    /\ pc = "done" /\ response.kind = "error"
    /\ req.ctx = "member"
    /\ result # <<>>
    /\ Len(walked) >= 1

\* C4: every item of the list a request returns has a kind in {1, 2, 5, 20}
\* and an insertText equal to its label.
C4_ItemShape ==
    \A i \in DOMAIN response.items :
        /\ response.items[i].kind \in {1, 2, 5, 20}
        /\ response.items[i].insertText = response.items[i].label

\* a list with an item of a members row whose type is none of the known ones
\* and an item of an enum_values row
C4_Witness ==
    /\ pc = "done" /\ response.kind = "ok"
    /\ \E i \in DOMAIN response.items :
          response.items[i].label = <<"T","a","g">> /\ response.items[i].kind = 1
    /\ \E i \in DOMAIN response.items :
          response.items[i].label = <<"B","a","r">> /\ response.items[i].kind = 2

\* the request of scenario 2: auto x = NewObject<UFoo>(); x->
AutoNewObject ==
    /\ req.ctx = "member" /\ req.kind = "identifier"
    /\ req.decls # <<>> /\ req.decls[1].type_text = <<"a","u","t","o">>
    /\ req.assigns # <<>> /\ req.assigns[1].value = <<"N","e","w","O","b","j","e","c","t","<","U","F","o","o",">","(",")">>

\* C5 as stated: the item of method Bar (return_type "UBar*") of UFoo has the
\* cleaned type as its detail.
C5_DetailIsCleaned ==
    (MembersReturned /\ AutoNewObject) =>
        \E i \in DOMAIN response.items :
            /\ response.items[i].label = <<"B","a","r">>
            /\ response.items[i].kind = 2
            /\ response.items[i].detail = <<"U","B","a","r">>

\* C5 amended: the detail of an item built from a members row is the row's
\* return_type as stored (the empty string for NULL); for Bar it is "UBar*".
C5_DetailIsReturnType ==
    MembersReturned =>
        /\ \A i \in DOMAIN walked : \A m \in Range(MembersOf(db, walked[i].id)) :
             \E k \in DOMAIN response.items :
                /\ response.items[k].label = m.name
                /\ response.items[k].kind = map_kind(m.type.val)
                /\ response.items[k].detail = OrDefault(m.return_type)
        /\ \A k \in DOMAIN response.items :
             (response.items[k].label = <<"B","a","r">>) => (response.items[k].detail = <<"U","B","a","r","*">>)

C5_Witness ==
    /\ MembersReturned /\ AutoNewObject
    /\ tdCur = <<"U","F","o","o">>
    /\ \E i \in DOMAIN response.items :
          /\ response.items[i].label = <<"B","a","r">>
          /\ response.items[i].kind = 2
          /\ response.items[i].detail = <<"U","B","a","r","*">>

\* C6: for every wrapper W of the list and every plain class name T,
\* extract_clean_type("W<T>") is T.
C6_SmartPointerPeel ==
    pc = "cleaned" =>
        \A w \in SmartPointers :
            \A t \in PlainNames : (raw = Wrap(w, t)) => (cleaned = Some(t))

C6_Witness ==
    /\ pc = "cleaned"
    /\ raw = Wrap( <<"T","S","o","f","t","C","l","a","s","s","P","t","r">>, <<"A","A","c","t","o","r">> )
    /\ cleaned = Some( <<"A","A","c","t","o","r">> )

\* C7: the name resolve_typedef returns is a fixed point of extract_clean_type,
\* whichever way its loop ended.
C7_CleanAfterResolve ==
    pc = "td_done" => extract_clean_type(tdCur) = tdCur

\* FTransform resolved to the last segment of "UE::Math::TTransform<double>"
C7_Witness ==
    /\ pc = "td_done"
    /\ tdIter = 2
    /\ tdCur = <<"T","T","r","a","n","s","f","o","r","m">>
    /\ req.decls # <<>> /\ req.decls[1].type_text = <<"F","T","r","a","n","s","f","o","r","m">>

\* C8: one call of resolve_typedef issues at most 3 typedef lookups.
C8_TypedefBound ==
    /\ tdIter <= 3
    /\ pc = "td_loop" => tdIter < 3

\* the cycle FAlias -> FOther -> FAlias stopped by the bound
C8_Witness ==
    /\ pc = "td_done"
    /\ tdIter = 3
    /\ tdCur = <<"F","O","t","h","e","r">>
    /\ req.decls # <<>> /\ req.decls[1].type_text = <<"F","A","l","i","a","s">>

\* find_member_return_type found the member in the class it looked at last
MemberFound ==
    /\ pc = "chain" /\ tdRet = "find"
    /\ walked # <<>> /\ Last(walked).hit

\* the class has a row for the member whose return type is not NULL
Defines(cls, member_name) ==
    \E row \in FirstMemberRows(db, cls, member_name) : row.return_type.some

\* the order a first-in first-out worklist visits the classes in
RECURSIVE QueueOrder(_, _)
QueueOrder(q, seen) ==
    IF q = <<>> THEN <<>>
    ELSE IF Head(q) \in seen THEN QueueOrder(Tail(q), seen)
    ELSE <<Head(q)>> \o QueueOrder(Tail(q) \o ParentsByName(db, Head(q)),
                                   seen \cup {Head(q)})

\* the order a last-in first-out worklist visits the classes in: the class,
\* then its last-recorded parent and all that parent's ancestors, then the
\* parent recorded before it
RECURSIVE StackOrder(_, _)
StackOrder(q, seen) ==
    IF q = <<>> THEN <<>>
    ELSE IF Last(q) \in seen THEN StackOrder(SubSeq(q, 1, Len(q) - 1), seen)
    ELSE <<Last(q)>> \o StackOrder(SubSeq(q, 1, Len(q) - 1) \o ParentsByName(db, Last(q)),
                                   seen \cup {Last(q)})

FirstDefining(order, member_name) ==
    LET D == {i \in DOMAIN order : Defines(order[i], member_name)}
    IN IF D = {} THEN None ELSE Some(order[Min(D)])

\* C9: the type find_member_return_type returns comes from the first class,
\* in breadth-first order from the searched class (the class, its parents in
\* recorded order, then grandparents), that defines the member.
C9_BreadthFirst ==
    MemberFound =>
        Some(Last(walked).name) = FirstDefining(QueueOrder(<<walked[1].name>>, {}), fmMember)

\* what queue.pop() does instead (C9): the worklist is a stack, so the type
\* comes from the first class that defines the member in the order: the class
\* itself, then its last-recorded parent with all of that parent's ancestors,
\* then the parents recorded before it.
C9_LastParentFirst ==
    MemberFound =>
        /\ Some(Last(walked).name) = FirstDefining(StackOrder(<<walked[1].name>>, {}), fmMember)
        /\ \A i \in DOMAIN walked :
              walked[i].name = StackOrder(<<walked[1].name>>, {})[i]

\* Name is defined by the direct parent AActor and by the grandparent UObject
\* (through UBar, recorded after AActor): the grandparent's is returned
C9_GrandparentFirst ==
    /\ MemberFound
    /\ fmMember = <<"N","a","m","e">>
    /\ walked[1].name = <<"U","F","o","o">>
    /\ Last(walked).name = <<"U","O","b","j","e","c","t">>
    /\ Defines( <<"A","A","c","t","o","r">>, <<"N","a","m","e">> )
    /\ Edge(1, <<"A","A","c","t","o","r">>) \in Range(inheritance)
    /\ cur = Some( <<"F","N","a","m","e">> )

\* the matches the assignment scan considers: the declarator contains the
\* target name and starts at or before the cursor row
Qualifying ==
    {i \in DOMAIN req.assigns :
        /\ find_identifier_in_decl(req.assigns[i].idents, Trim(req.text))
        /\ req.assigns[i].row <= req.cursor_row}

\* C10: among the pairs whose declarator contains the target name and whose
\* start row is at most the cursor row, the scan infers from the value of the
\* pair with the greatest start row.
C10_LatestPair ==
    (pc = "assigned" /\ Qualifying # {}) =>
        \E i \in Qualifying :
            /\ \A j \in Qualifying : req.assigns[j].row <= req.assigns[i].row
            /\ cur = infer_from_value_text(req.assigns[i].value)

\* what the early return does instead (C10): the scan infers from the value
\* of the first qualifying pair in the order the query yields the matches,
\* which has the smallest start row of all qualifying pairs; its result is
\* returned even when it is no type.  Without a qualifying pair there is no
\* type.
C10_FirstPair ==
    pc = "assigned" =>
        IF Qualifying = {} THEN cur = None
        ELSE /\ cur = infer_from_value_text(req.assigns[Min(Qualifying)].value)
             /\ \A j \in Qualifying :
                   req.assigns[Min(Qualifying)].row <= req.assigns[j].row

\* an initializer on row 0 and a re-assignment on row 1, both before the
\* cursor: the initializer decides
C10_InitializerDecides ==
    /\ pc = "assigned"
    /\ req.cursor_row = 1
    /\ req.assigns = << AssignMatch(0, << <<"x">> >>, <<"N","e","w","O","b","j","e","c","t","<","U","F","o","o",">","(",")">> ),
                        AssignMatch(1, << <<"x">> >>, <<"N","e","w","O","b","j","e","c","t","<","U","B","a","r",">","(",")">> ) >>
    /\ cur = Some( <<"U","F","o","o">> )

\* the declaration records the scan considers: the declarator contains the
\* target name and starts at or before the cursor row
Declared ==
    {i \in DOMAIN req.decls :
        /\ find_identifier_in_decl(req.decls[i].idents, Trim(req.text))
        /\ req.decls[i].row <= req.cursor_row}

\* what one declaration record decides by itself
DecidedBy(m) ==
    IF Trim(m.type_text) = <<"a","u","t","o">>
    THEN infer_from_assignment(Trim(req.text), req.assigns, req.cursor_row)
    ELSE Some(extract_clean_type(Trim(m.type_text)))

\* C11: when declaration records of the target start at or before the cursor
\* row, the inferred type is what a record with the greatest such row decides
\* alone: the cleaned type text, or for auto whatever the assignment scan
\* yields, possibly no type.
C11_LatestDeclarationAlone ==
    (pc = "inferred" /\ Declared # {}) =>
        \E i \in Declared :
            /\ \A j \in Declared : req.decls[j].row <= req.decls[i].row
            /\ cur = DecidedBy(req.decls[i])

\* what the loop does instead (C11): an auto record whose assignment scan
\* yields no type leaves best_type as the earlier records set it; in every
\* other case a record with the greatest row decides alone.
C11_AutoKeepsEarlier ==
    (pc = "inferred" /\ Declared # {}) =>
        \E i \in Declared :
            /\ \A j \in Declared : req.decls[j].row <= req.decls[i].row
            /\ \/ cur = DecidedBy(req.decls[i])
               \/ /\ Trim(req.decls[i].type_text) = <<"a","u","t","o">>
                  /\ ~DecidedBy(req.decls[i]).some

\* a typed declaration on row 0 shadowed on row 1 by an auto declaration whose
\* initializer has no type: the earlier declaration's type is returned
C11_EarlierTypeKept ==
    /\ pc = "inferred"
    /\ req.cursor_row = 1
    /\ req.decls = << DeclMatch( <<"U","F","o","o","*">>, 0, << <<"x">> >>),
                      DeclMatch( <<"a","u","t","o">>, 1, << <<"x">> >>) >>
    /\ req.assigns = << AssignMatch(0, << <<"x">> >>, <<"4","2">> ) >>
    /\ cur = Some( <<"U","F","o","o">> )

\* C12: whenever the raw string holds W<X> with W a smart-pointer wrapper,
\* also when qualifiers or a namespace precede W and pointer marks follow,
\* extract_clean_type(raw) is extract_clean_type(X).
C12_PeelAnywhere ==
    pc = "cleaned" =>
        \A w \in SmartPointers : \A t \in PlainNames :
            \A p \in Prefixes : \A s \in Suffixes :
                (raw = p \o Wrap(w, t) \o s) => (cleaned = Some(extract_clean_type(t)))

\* what the comparison of line 472 does instead (C12): the wrapper is peeled
\* only when the trimmed text before the first '<' is exactly the wrapper; with
\* a qualifier or a namespace before it the result is the wrapper's own name.
C12_PeelOnlyBareWrapper ==
    pc = "cleaned" =>
        \A w \in SmartPointers : \A t \in PlainNames :
            \A p \in Prefixes : \A s \in Suffixes :
                (raw = p \o Wrap(w, t) \o s) =>
                    (cleaned = IF Trim(p) = <<>> THEN Some(t) ELSE Some(w))

\* "const TObjectPtr<UFoo>&" is cleaned to "TObjectPtr"
C12_QualifiedWrapperKept ==
    /\ pc = "cleaned"
    /\ raw = <<"c","o","n","s","t"," ","T","O","b","j","e","c","t","P","t","r","<","U","F","o","o",">","&">>
    /\ cleaned = Some( <<"T","O","b","j","e","c","t","P","t","r">> )

====
